---------------------------- MODULE Spec2Model ----------------------------
(***************************************************************************)
(* A model of the game prototype's three stateful subsystems:              *)
(*                                                                         *)
(*   - combat: CombatManager (hitboxes, collision check, handleHit) with   *)
(*     PlayerEntity.takeDamage and EnemyEntity.takeDamage;                 *)
(*   - the patch-map GrassComponent (updatePatches / createPatch /         *)
(*     removePatch over a Map of active patches);                          *)
(*   - the LOD GrassComponent (updateLOD / updateGrassPatches / createMesh *)
(*     over the children of grassGroup).                                   *)
(*                                                                         *)
(* and of what surrounds them: the entities' own behaviour (update(), the  *)
(* attacks with their cooldowns and setTimeout callbacks, the animation    *)
(* mixer's 'finished' event), the start of the application (loadModel,     *)
(* init(), the constructors' use of the animations map) and the blades of  *)
(* a patch of the patch-map GrassComponent (createPatch, sampleHeight).    *)
(*                                                                         *)
(* Time is counted in ticks of 100 ms: every delay and duration of the     *)
(* combat code (0.2 s, 0.3 s, 0.5 s, 1000 ms) is a whole number of ticks.  *)
(* Health and damage are counted in half points, because the heavy attack  *)
(* deals attackPower * 1.5 = 37.5.                                         *)
(***************************************************************************)
EXTENDS Integers, Sequences, FiniteSets, Bags, TLC

VARIABLES
    player,      \* PlayerEntity: health, currentState, invulnerable, staggerTime
    enemy,       \* EnemyEntity per enemy id: data.health, currentState, data.isHostile
    hitboxes,    \* CombatManager.hitboxes, in push order
    timers,      \* pending setTimeout callbacks, in scheduling order
    sinceFrame,  \* ticks of wall-clock time since the last animation frame
    activePatches, \* patch-map GrassComponent.activePatches: keys in Map insertion order
    sceneObjs,     \* objects the patch-map component holds in the scene
    patchPlayer,   \* playerObject.position (x, z) read by updatePatches
    patchPhase,    \* "constructed" until the constructor's loadShaders().then ran
    grass,       \* LOD GrassComponent: children, per-mesh data, meshesLow, meshesHigh
    view,        \* the camera and player pose of the last grass update
    switched,    \* history: the meshes whose LOD level the last update() changed
    created,     \* history: the meshes createMesh made in the last init() or update()
    hist,        \* history of the entity operations: the last operation and its inputs
    boot,        \* the start of the application: asset load, entities, frame loop
    comp         \* a patch-map GrassComponent: its parameters, fields and last patch

combatVars == <<player, enemy, hitboxes, timers, sinceFrame>>
patchVars  == <<activePatches, sceneObjs, patchPlayer, patchPhase>>
lodVars    == <<grass, view, switched, created>>
auxVars    == <<hist, boot, comp>>
\* what the entities' own steps leave alone
idleVars   == <<patchVars, lodVars, boot, comp>>
vars       == <<player, enemy, hitboxes, timers, sinceFrame,
                activePatches, sceneObjs, patchPlayer, patchPhase,
                grass, view, switched, created, hist, boot, comp>>

-----------------------------------------------------------------------------
(* Bounds of the model *)

\* hitboxes ever created (CombatManager.hitboxes only grows)
MaxHitboxes == 2
\* longest frame, in ticks
MaxDelta == 2
\* pending setTimeout callbacks
MaxTimers == 2
\* direct takeDamage calls in a fight that follows the entities' own updates
MaxHits == 2

-----------------------------------------------------------------------------
(* Units *)

\* points -> half points
Half(x) == 2 * x

-----------------------------------------------------------------------------
(* PlayerEntity *)

\* this.health = 100; this.maxHealth = 100
PlayerMaxHealth == 100
\* this.attackPower = 25
AttackPower == 25
\* getStaggered: this.staggerTime = 0.5 (seconds), in ticks
PlayerStaggerTicks == 5

\* attack: this.attackCooldown = 0.8 (seconds), in ticks
LightCooldownTicks == 8
\* heavyAttack: this.attackCooldown = 1.2 (seconds), in ticks
HeavyCooldownTicks == 12
\* attack: setTimeout(..., 300) of the hitbox, in ticks
LightHitboxDelayTicks == 3
\* heavyAttack: setTimeout(..., 500) of the hitbox, in ticks
HeavyHitboxDelayTicks == 5
\* fadeToAction: crossFadeFrom(..., 0.5, true), in ticks
PlayerFadeTicks == 5
\* the slash action runs at full weight (slash counts the ticks it still runs
\* while it fades out, 0 when it is stopped or has finished)
SlashRunning == 9

\* the constructor: activeAction is "none" for null. Of the actions only
\* slash is followed: it is the one looping once whose 'finished' event has a
\* listener that acts (the attack clip is never marked as looping once).
PlayerInit ==
    [health         |-> Half(PlayerMaxHealth),
     currentState   |-> "IDLE",
     invulnerable   |-> FALSE,
     staggerTime    |-> 0,
     isAttacking    |-> FALSE,
     currentAttack  |-> "none",
     attackCooldown |-> 0,
     activeAction   |-> "none",
     slash          |-> 0]

\* PlayerEntity.fadeToAction(action), every clip present: the action is reset
\* and played and the active one fades out over 0.5 s
FadeToAction(p, action) ==
    IF p.activeAction = action THEN p
    ELSE [p EXCEPT !.activeAction = action,
                   !.slash = IF action = "slash" THEN SlashRunning
                             ELSE IF p.activeAction = "slash" /\ p.slash = SlashRunning
                                  THEN PlayerFadeTicks
                                  ELSE p.slash]

\* PlayerEntity.die
PlayerDie(p) == FadeToAction([p EXCEPT !.currentState = "DEAD"], "death")

\* PlayerEntity.getStaggered
GetStaggered(p) ==
    FadeToAction([p EXCEPT !.currentState = "STAGGERED",
                           !.staggerTime = PlayerStaggerTicks], "block")

\* PlayerEntity.onAttackComplete
OnAttackComplete(p) ==
    [p EXCEPT !.isAttacking = FALSE, !.currentAttack = "none",
              !.currentState = "IDLE"]

\* this.mixer.update(delta): the slash action, while it runs, may reach its
\* end in this update (fin: the length of the clip is the asset's) and
\* dispatch 'finished'; an action that has faded out is disabled
PlayerMixerUpdate(p, delta, fin) ==
    IF p.slash = 0 THEN p
    ELSE IF fin THEN OnAttackComplete([p EXCEPT !.slash = 0])
    ELSE IF p.slash = SlashRunning THEN p
    ELSE [p EXCEPT !.slash = IF p.slash > delta THEN p.slash - delta ELSE 0]

\* the test attack() and heavyAttack() start with
AttackBlocked(p) ==
    \/ p.isAttacking
    \/ p.currentState = "STAGGERED"
    \/ p.currentState = "DEAD"
    \/ p.attackCooldown > 0

\* an attack that does not look at the cooldown
PlayerAttackNoCooldown(p, kind) ==
    IF p.isAttacking \/ p.currentState \in {"STAGGERED", "DEAD"}
    THEN [ent |-> p, sched |-> <<>>]
    ELSE [ent   |-> [FadeToAction([p EXCEPT !.isAttacking = TRUE,
                                            !.currentState = "ATTACKING",
                                            !.currentAttack = kind],
                                  IF kind = "light" THEN "attack" ELSE "slash")
                       EXCEPT !.attackCooldown =
                           IF kind = "light" THEN LightCooldownTicks
                           ELSE HeavyCooldownTicks],
          sched |-> <<[kind |-> "playerHitbox", who |-> kind,
                       remaining |-> IF kind = "light" THEN LightHitboxDelayTicks
                                     ELSE HeavyHitboxDelayTicks]>>]

\* PlayerEntity.attack() (kind "light") and heavyAttack() (kind "heavy"), with
\* a combatManager: the new player and the timer the call schedules
PlayerAttack(p, kind) ==
    IF AttackBlocked(p) THEN [ent |-> p, sched |-> <<>>]
    ELSE [ent   |-> [FadeToAction([p EXCEPT !.isAttacking = TRUE,
                                            !.currentState = "ATTACKING",
                                            !.currentAttack = kind],
                                  IF kind = "light" THEN "attack" ELSE "slash")
                       EXCEPT !.attackCooldown =
                           IF kind = "light" THEN LightCooldownTicks
                           ELSE HeavyCooldownTicks],
          sched |-> <<[kind |-> "playerHitbox", who |-> kind,
                       remaining |-> IF kind = "light" THEN LightHitboxDelayTicks
                                     ELSE HeavyHitboxDelayTicks]>>]

\* PlayerEntity.update(delta); move is the action the keys select: idle,
\* walkForward or runForward
PlayerUpdate(p0, delta, move, fin) ==
    LET p == IF p0.attackCooldown > 0
             THEN [p0 EXCEPT !.attackCooldown = p0.attackCooldown - delta] ELSE p0
    IN IF p.currentState = "STAGGERED"
       THEN LET q == [p EXCEPT !.staggerTime = p.staggerTime - delta]
            IN IF q.staggerTime <= 0 THEN [q EXCEPT !.currentState = "IDLE"] ELSE q
       ELSE IF p.currentState = "DEAD" \/ p.isAttacking
       THEN PlayerMixerUpdate(p, delta, fin)
       ELSE PlayerMixerUpdate(FadeToAction(p, move), delta, fin)

\* the takeDamage of a player that keeps a negative health at death
PlayerTakeDamageNoClamp(p, damage) ==
    IF p.invulnerable \/ p.currentState = "DEAD" THEN p
    ELSE LET q == [p EXCEPT !.health = p.health - damage]
         IN IF q.health <= 0 THEN PlayerDie(q) ELSE GetStaggered(q)

\* PlayerEntity.takeDamage
PlayerTakeDamage(p, damage) ==
    IF p.invulnerable \/ p.currentState = "DEAD" THEN p
    ELSE LET q == [p EXCEPT !.health = p.health - damage]
         IN IF q.health <= 0
            THEN PlayerDie([q EXCEPT !.health = 0])
            ELSE GetStaggered(q)

-----------------------------------------------------------------------------
(* EnemyEntity *)

EnemyIds == {"knight1", "knight2"}

\* data.health = 500, data.maxHealth = 500
EnemyMaxHealth == 500
\* data.attackDamage = 15
EnemyAttackDamage == 15
\* takeDamage: if (damage >= 20) stagger
StaggerThreshold == 20
\* setTimeout(..., 1000) of the stagger recovery, in ticks
StaggerRecoverTicks == 10

\* data.detectionRadius = 50
DetectionRadius == 50
\* data.attackRange = 3
AttackRange == 3
\* data.attackCooldown = 2.0 (seconds), in ticks
EnemyAttackCooldownTicks == 20
\* attack: setTimeout(..., 400) of the hitbox, in ticks
EnemyHitboxDelayTicks == 4
\* playAnimation: crossFadeDuration = 0.3 (seconds), in ticks
EnemyFadeTicks == 3
\* the comboAttack action runs at full weight (combo counts the ticks it still
\* runs while it fades out, 0 when it is stopped or has finished)
ComboRunning == 9

\* the constructor and init(): setupAnimations ends with playAnimation('idle').
\* entered is a history field: the states setState set in the last update(),
\* empty after any other operation.
EnemyInit ==
    [health         |-> Half(EnemyMaxHealth),
     currentState   |-> "IDLE",
     isHostile      |-> FALSE,
     isAttacking    |-> FALSE,
     attackCooldown |-> 0,
     currentAction  |-> "idle",
     combo          |-> 0,
     entered        |-> <<>>]

\* EnemyEntity.setState: entering ATTACK resets the cooldown
SetState(en, newState) ==
    [en EXCEPT !.currentState = newState,
               !.entered = Append(en.entered, newState),
               !.attackCooldown = IF newState = "ATTACK" THEN 0 ELSE en.attackCooldown]

\* the history of the last update() is over
Unlogged(en) == [en EXCEPT !.entered = <<>>]

\* EnemyEntity.playAnimation(name), every clip present: the current action
\* fades out over 0.3 s and the new one is reset and played
PlayAnimation(en, name) ==
    IF en.currentAction = name THEN en
    ELSE [en EXCEPT !.currentAction = name,
                    !.combo = IF name = "comboAttack" THEN ComboRunning
                              ELSE IF en.currentAction = "comboAttack" /\ en.combo = ComboRunning
                                   THEN EnemyFadeTicks
                                   ELSE en.combo]

\* EnemyEntity.becomeHostile
BecomeHostile(en) ==
    IF ~en.isHostile
    THEN SetState([en EXCEPT !.isHostile = TRUE], "AWARE")
    ELSE en

\* EnemyEntity.die
EnemyDie(en) == PlayAnimation(SetState(en, "DEAD"), "death")

\* a takeDamage that does not look whether the enemy is dead
EnemyTakeDamageOfTheDead(en, e, damage) ==
    LET q == [en EXCEPT !.health = en.health - damage]
    IN IF q.health <= 0 THEN [ent |-> Unlogged(EnemyDie(q)), sched |-> <<>>]
       ELSE IF damage >= Half(StaggerThreshold)
            THEN [ent   |-> Unlogged(PlayAnimation(SetState(q, "STAGGERED"), "hit")),
                  sched |-> <<[kind |-> "staggerRecover", who |-> e,
                               remaining |-> StaggerRecoverTicks]>>]
            ELSE [ent |-> Unlogged(BecomeHostile(q)), sched |-> <<>>]

\* EnemyEntity.takeDamage: the new entity and the timers it schedules.
\* (The 200 ms timer that restores model.material changes rendering only.)
EnemyTakeDamage(en, e, damage) ==
    IF en.currentState = "DEAD" THEN [ent |-> Unlogged(en), sched |-> <<>>]
    ELSE LET q == [en EXCEPT !.health = en.health - damage]
         IN IF q.health <= 0 THEN [ent |-> Unlogged(EnemyDie(q)), sched |-> <<>>]
            ELSE IF damage >= Half(StaggerThreshold)
                 THEN [ent   |-> Unlogged(PlayAnimation(SetState(q, "STAGGERED"), "hit")),
                       sched |-> <<[kind |-> "staggerRecover", who |-> e,
                                    remaining |-> StaggerRecoverTicks]>>]
                 ELSE [ent |-> Unlogged(BecomeHostile(q)), sched |-> <<>>]

\* a stagger recovery that does not look at the state
StaggerRecoverAnyState(en) == Unlogged(SetState(en, "CHASE"))

\* the callback of takeDamage's setTimeout(..., 1000)
StaggerRecover(en) ==
    Unlogged(IF en.currentState = "STAGGERED" THEN SetState(en, "CHASE") ELSE en)

\* the mixer's 'finished' listener of setupAnimationCallbacks (onAttackFinished)
OnAttackFinished(en) ==
    LET q == [en EXCEPT !.isAttacking = FALSE,
                        !.attackCooldown = EnemyAttackCooldownTicks,
                        !.combo = 0]
    IN IF q.currentState = "ATTACK" THEN PlayAnimation(q, "idle") ELSE q

\* this.mixer.update(delta): the comboAttack action, while it runs, may reach
\* its end in this update (fin: the length of the clip is the asset's) and
\* dispatch 'finished'; an action that has faded out is disabled
EnemyMixerUpdate(en, delta, fin) ==
    IF en.combo = 0 THEN en
    ELSE IF fin THEN OnAttackFinished(en)
    ELSE IF en.combo = ComboRunning THEN en
    ELSE [en EXCEPT !.combo = IF en.combo > delta THEN en.combo - delta ELSE 0]

\* EnemyEntity.attack(delta), with a combatManager: the new entity and the
\* timer it schedules
EnemyAttack(en, e, delta, dist) ==
    IF dist > AttackRange THEN [ent |-> SetState(en, "CHASE"), sched |-> <<>>]
    ELSE IF en.isAttacking THEN [ent |-> en, sched |-> <<>>]
    ELSE IF en.attackCooldown <= 0
    THEN [ent   |-> PlayAnimation([en EXCEPT !.isAttacking = TRUE], "comboAttack"),
          sched |-> <<[kind |-> "enemyHitbox", who |-> e,
                       remaining |-> EnemyHitboxDelayTicks]>>]
    ELSE [ent |-> [en EXCEPT !.attackCooldown = en.attackCooldown - delta],
          sched |-> <<>>]

\* EnemyEntity.updateStateBehavior(delta, distanceToPlayer)
UpdateStateBehavior(en, e, delta, dist) ==
    CASE en.currentState = "IDLE" ->
           [ent |-> PlayAnimation(en, "idle"), sched |-> <<>>]
      [] en.currentState = "AWARE" ->
           LET q == PlayAnimation(en, "idle")
           IN [ent   |-> IF 10 * dist < 7 * DetectionRadius
                         THEN SetState(q, "CHASE") ELSE q,
               sched |-> <<>>]
      [] en.currentState = "CHASE" ->
           LET q == PlayAnimation(en, "walk")
           IN [ent   |-> IF dist <= AttackRange THEN SetState(q, "ATTACK") ELSE q,
               sched |-> <<>>]
      [] en.currentState = "ATTACK" -> EnemyAttack(en, e, delta, dist)
      [] OTHER -> [ent |-> en, sched |-> <<>>]

\* an update that detects the player only inside the radius, not on it
EnemyUpdateStrictRadius(en0, e, delta, dist, fin) ==
    LET en1 == EnemyMixerUpdate(Unlogged(en0), delta, fin)
    IN IF en1.currentState = "DEAD" THEN [ent |-> en1, sched |-> <<>>]
       ELSE LET en2 == IF dist < DetectionRadius /\ ~en1.isHostile
                       THEN BecomeHostile(en1) ELSE en1
            IN UpdateStateBehavior(en2, e, delta, dist)

\* EnemyEntity.update(delta, player), the player's model at distance dist
EnemyUpdate(en0, e, delta, dist, fin) ==
    LET en1 == EnemyMixerUpdate(Unlogged(en0), delta, fin)
    IN IF en1.currentState = "DEAD" THEN [ent |-> en1, sched |-> <<>>]
       ELSE LET en2 == IF dist <= DetectionRadius /\ ~en1.isHostile
                       THEN BecomeHostile(en1) ELSE en1
            IN UpdateStateBehavior(en2, e, delta, dist)

-----------------------------------------------------------------------------
(* CombatManager *)

\* CombatManager.entities after player and enemies were registered, in order
Entities == <<"player", "knight1", "knight2">>

\* The arguments of the createHitbox calls of the code: PlayerEntity.attack
\* (0.2 s, knockback 2), PlayerEntity.heavyAttack (attackPower * 1.5, 0.3 s,
\* knockback 4) and EnemyEntity.attack (attackDamage, 0.2 s, knockback 1).
HitboxArgs ==
    {[owner |-> "player", damage |-> Half(AttackPower), duration |-> 2, knockback |-> 2],
     [owner |-> "player", damage |-> 3 * AttackPower,  duration |-> 3, knockback |-> 4]}
    \cup
    {[owner |-> e, damage |-> Half(EnemyAttackDamage), duration |-> 2, knockback |-> 1]
        : e \in EnemyIds}

\* the hitbox object createHitbox builds; dealt, pushed, hitOwner and outlived
\* are history fields: the takeDamage calls and the knockbacks this hitbox has
\* caused, whether handleHit was ever called with it and its owner, and
\* whether a frame has run since it became inactive
NewHitbox(id, a) ==
    [id            |-> id,
     owner         |-> a.owner,
     damage        |-> a.damage,
     knockback     |-> a.knockback,
     timeRemaining |-> a.duration,
     active        |-> TRUE,
     posed         |-> FALSE,   \* collider is still the empty Box3
     dealt         |-> 0,
     pushed        |-> 0,
     hitOwner      |-> FALSE,
     outlived      |-> FALSE]

\* hitbox.update(delta)
HitboxUpdate(hb, delta) ==
    LET tr == hb.timeRemaining - delta
    IN IF tr <= 0
       THEN [hb EXCEPT !.timeRemaining = tr, !.active = FALSE]
       ELSE [hb EXCEPT !.timeRemaining = tr, !.posed = TRUE]

\* entity.currentState === "DEAD"
IsDead(w, ent) ==
    IF ent = "player" THEN w.player.currentState = "DEAD"
    ELSE w.enemy[ent].currentState = "DEAD"

\* entity.takeDamage(damage), on the world w
TakeDamage(w, ent, damage) ==
    IF ent = "player"
    THEN [w EXCEPT !.player = PlayerTakeDamage(w.player, damage)]
    ELSE LET r == EnemyTakeDamage(w.enemy[ent], ent, damage)
         IN [w EXCEPT !.enemy[ent] = r.ent, !.timers = w.timers \o r.sched]

\* a handleHit that leaves the hitbox active
HandleHitStaysActive(w, i, ent) ==
    LET hb == w.hitboxes[i]
        w1 == TakeDamage(w, ent, hb.damage)
    IN [w1 EXCEPT !.hitboxes[i] =
           [hb EXCEPT !.dealt = hb.dealt + 1,
                      !.pushed = IF hb.knockback > 0 THEN hb.pushed + 1 ELSE hb.pushed,
                      !.hitOwner = hb.hitOwner \/ ent = hb.owner]]

\* CombatManager.handleHit(hitbox, entity)
HandleHit(w, i, ent) ==
    LET hb == w.hitboxes[i]
        w1 == TakeDamage(w, ent, hb.damage)
    IN [w1 EXCEPT !.hitboxes[i] =
           [hb EXCEPT !.active = FALSE,
                      !.dealt = hb.dealt + 1,
                      !.pushed = IF hb.knockback > 0 THEN hb.pushed + 1 ELSE hb.pushed,
                      !.hitOwner = hb.hitOwner \/ ent = hb.owner]]

\* checkCollisions, the inner this.entities.forEach for hitbox i, from entity k on.
\* ov[i] is the set of entities whose model box intersects the collider of
\* hitbox i in this frame; the empty collider of a hitbox never updated
\* intersects nothing.
RECURSIVE CheckEntitiesOwnerToo(_, _, _, _)
\* an inner loop that does not skip the owner of the hitbox
CheckEntitiesOwnerToo(w, i, k, ov) ==
    IF k > Len(Entities) THEN w
    ELSE LET ent == Entities[k]
             hb  == w.hitboxes[i]
         IN IF IsDead(w, ent) \/ ~(hb.posed /\ ent \in ov[i])
            THEN CheckEntitiesOwnerToo(w, i, k + 1, ov)
            ELSE CheckEntitiesOwnerToo(HandleHit(w, i, ent), i, k + 1, ov)

RECURSIVE CheckEntities(_, _, _, _)
CheckEntities(w, i, k, ov) ==
    IF k > Len(Entities) THEN w
    ELSE LET ent == Entities[k]
             hb  == w.hitboxes[i]
         IN IF hb.owner = ent \/ IsDead(w, ent) \/ ~(hb.posed /\ ent \in ov[i])
            THEN CheckEntities(w, i, k + 1, ov)
            ELSE CheckEntities(HandleHit(w, i, ent), i, k + 1, ov)

\* CombatManager.checkCollisions, the outer this.hitboxes.forEach from hitbox i on
RECURSIVE CheckCollisions(_, _, _)
CheckCollisions(w, i, ov) ==
    IF i > Len(w.hitboxes) THEN w
    ELSE IF ~w.hitboxes[i].active THEN CheckCollisions(w, i + 1, ov)
         ELSE CheckCollisions(CheckEntities(w, i, 1, ov), i + 1, ov)

\* CombatManager.update(deltaTime): the hitbox updates, then checkCollisions
\* (activeEffects is never added to, so updateEffects changes nothing)
ManagerUpdate(w, delta, ov) ==
    LET moved == [i \in 1..Len(w.hitboxes) |->
                    IF w.hitboxes[i].active
                    THEN HitboxUpdate(w.hitboxes[i], delta)
                    ELSE [w.hitboxes[i] EXCEPT !.outlived = TRUE]]
    IN CheckCollisions([w EXCEPT !.hitboxes = moved], 1, ov)

World == [player |-> player, enemy |-> enemy, hitboxes |-> hitboxes, timers |-> timers]

SetWorld(w) ==
    /\ player' = w.player
    /\ enemy' = w.enemy
    /\ hitboxes' = w.hitboxes
    /\ timers' = w.timers

-----------------------------------------------------------------------------
(* Patch-map GrassComponent: constructor parameters, blades of a patch.
   Heights are in thousandths of a unit. *)

\* params.x || d of the constructor; 0 stands for a parameter left out too
OrDefault(v, d) == IF v = 0 THEN d ELSE v

\* the params objects: the key the heightmap texture is passed under (the
\* usage example and main.js write heightmap, "none" leaves it out), the
\* texture, patchSize and density (0: left out), and the heights of the usage
\* example
GrassParamSets ==
    {[key |-> k, map |-> mp, patchSize |-> ps, density |-> d,
      terrainSize |-> 100, maxHeight |-> 5, minHeight |-> 0, heightOffset |-> 0]
        : k \in {"heightmap", "heightMap", "none"}, mp \in {"flat", "ridge"},
          ps \in {0, 10, 20}, d \in {0, 1, 3}}

\* the params object of the usage example
DocsParams ==
    [key |-> "heightmap", map |-> "ridge", patchSize |-> 10, density |-> 3,
     terrainSize |-> 100, maxHeight |-> 5, minHeight |-> 0, heightOffset |-> 0]

\* the history of the last patch created: its blade count and one of its
\* blades; count -1 while no patch was created
NoPatch == [key |-> <<0, 0>>, count |-> -1, x |-> 0, z |-> 0, y |-> 0]

\* before the constructor has run
NotBuilt(params) ==
    [params |-> params, built |-> FALSE, heightMap |-> "undefined",
     terrainSize |-> 0, maxHeight |-> 0, minHeight |-> 0, heightOffset |-> 0,
     patchSize |-> 0, density |-> 0, last |-> NoPatch]

\* the component in the specifications that do not build one
CompIdle == NotBuilt(DocsParams)

\* the constructor's field assignments: the texture is read from
\* params.heightMap
Constructor(c) ==
    [c EXCEPT !.built = TRUE,
              !.heightMap = IF c.params.key = "heightMap" THEN c.params.map ELSE "undefined",
              !.terrainSize = OrDefault(c.params.terrainSize, 100),
              !.maxHeight = OrDefault(c.params.maxHeight, 10),
              !.minHeight = OrDefault(c.params.minHeight, 0),
              !.heightOffset = OrDefault(c.params.heightOffset, 0),
              !.patchSize = OrDefault(c.params.patchSize, 10),
              !.density = OrDefault(c.params.density, 2)]

\* 1000 * Math.sin(k) and 1000 * Math.cos(k), rounded, for the whole k of the
\* sample points
SinK(k) ==
    LET t == <<841, 909, 141, -757, -959, -279>>
    IN IF k = 0 THEN 0 ELSE IF k > 0 THEN t[k] ELSE 0 - t[0 - k]

CosK(k) ==
    LET t == <<540, -416, -990, -654, 284, 960>>
    IN IF k = 0 THEN 1000 ELSE IF k > 0 THEN t[k] ELSE t[0 - k]

\* sampleHeight(worldX, worldZ), in thousandths, for coordinates that are
\* multiples of 5: the fallback computes the height from the position
SampleHeight(c, x, z) ==
    IF c.heightMap = "undefined" THEN 1000 * c.heightOffset
    ELSE IF \/ 2 * x < 0 - c.terrainSize \/ 2 * x > c.terrainSize
            \/ 2 * z < 0 - c.terrainSize \/ 2 * z > c.terrainSize
    THEN 1000 * (c.minHeight + c.heightOffset)
    ELSE LET heightNoise == (SinK(x \div 5) * CosK(z \div 5)) \div 2000 + 500
         IN 1000 * c.minHeight + heightNoise * c.maxHeight + 1000 * c.heightOffset

\* createPatch: const density = 3; instanceCount = Math.floor(patchSize *
\* patchSize * density)
InstanceCount(c) == c.patchSize * c.patchSize * 3

-----------------------------------------------------------------------------
(* Start of the application: main.js init(), loadModel, the entities'
   constructors and the first frames *)

\* console.warn and console.error calls that are counted
MaxLogged == 2

\* the clips PlayerEntity reads from its animations map
PlayerClips ==
    {"idle", "walkForward", "runForward", "attack", "slash", "jumpAttack", "block", "death"}

\* the clips EnemyEntity plays
KnightClips == {"idle", "walk", "comboAttack", "hit", "death"}

\* the animations maps loadModel can build, one entry per clip of the file,
\* named by the clip the file lacks: "none" or one of the clips
Lacking(all) == {"none"} \cup all

\* before init() runs. asset and lacks are what the server holds: whether the
\* model file loads, and the clip it lacks; knightLacks is the clip the map
\* lacks an EnemyEntity is built with. loads counts the loadAsync calls, errors the
\* console.error calls of LOADING_MANAGER.onError, warns the console.warn
\* calls of playAnimation; unhandled: init()'s promise was rejected (nobody
\* handles it); raised: an exception left update().
BootStart(asset, lacks, knightLacks) ==
    [phase |-> "start", asset |-> asset, lacks |-> lacks, knightLacks |-> knightLacks,
     loads |-> 0, errors |-> 0, warns |-> 0, unhandled |-> FALSE, raised |-> FALSE,
     active |-> "none", knight |-> "none"]

\* the application in the specifications that do not start it
BootIdle == BootStart("ok", "none", "none")

\* PlayerEntity.init(): this.animations.slash.action and the three that
\* follow throw a TypeError when the entry is missing
InitRaises(lacks) == lacks \in {"slash", "jumpAttack", "block", "death"}

\* PlayerEntity.fadeToAction(this.animations[action].action): the argument
\* throws when the entry is missing, and so does the idle action that stands
\* in for a null activeAction
FadeRaises(lacks, active, action) ==
    \/ action = lacks
    \/ active # action /\ active = "none" /\ lacks = "idle"

\* one more call, counted up to MaxLogged
Logged(n, called) == IF called /\ n < MaxLogged THEN n + 1 ELSE n

\* init() up to its first await: loadModel calls loader.loadAsync once
StartInit ==
    /\ boot.phase = "start"
    /\ boot' = [boot EXCEPT !.phase = "loading", !.loads = boot.loads + 1]

\* loadAsync settles. On failure the loading manager's onError logs the url,
\* loadModel and init() have no catch: init()'s promise is rejected, and the
\* DOMContentLoaded listener that called init() ignores the promise.
LoadSettles ==
    /\ boot.phase = "loading"
    /\ boot' = IF boot.asset = "ok"
               THEN [boot EXCEPT !.phase = "loaded"]
               ELSE [boot EXCEPT !.phase = "rejected",
                                 !.errors = Logged(boot.errors, TRUE),
                                 !.unhandled = TRUE]

\* init() goes on: new PlayerEntity(...), whose constructor calls init(), then
\* renderer.setAnimationLoop(animate)
ConstructPlayer ==
    /\ boot.phase = "loaded"
    /\ boot' = IF InitRaises(boot.lacks)
               THEN [boot EXCEPT !.phase = "rejected", !.unhandled = TRUE]
               ELSE [boot EXCEPT !.phase = "running"]

\* one frame of animate(): PLAYER.update(delta) of a player that stands or
\* moves as the keys say. An exception leaves animate(); three.js requests
\* the next frame only after the callback returned.
AnimateFrame(move) ==
    /\ boot.phase = "running"
    /\ boot' = IF FadeRaises(boot.lacks, boot.active, move)
               THEN [boot EXCEPT !.phase = "stopped", !.raised = TRUE]
               ELSE [boot EXCEPT !.active = move]

\* new EnemyEntity(...): init() calls setupAnimations(), which ends with
\* playAnimation('idle'); a missing clip is a console.warn
ConstructKnight ==
    /\ boot.knight = "none"
    /\ boot' = [boot EXCEPT !.knight = "idle",
                            !.warns = Logged(boot.warns, boot.knightLacks = "idle")]

\* EnemyEntity.update(): the state's playAnimation(name) call
KnightFrame(name) ==
    /\ boot.knight # "none"
    /\ boot' = [boot EXCEPT !.knight = IF name # boot.knightLacks THEN name ELSE boot.knight,
                            !.warns = Logged(boot.warns, name = boot.knightLacks)]

-----------------------------------------------------------------------------
(* Combat actions *)

\* nothing has been done to the entities yet. dist is the distance the
\* enemy's update() measured if the last step was one, 0 otherwise; hits counts
\* the takeDamage calls; sinceEnd and sinceStart are the frame time since the
\* enemy's last attack finished and since the player's last attack started
\* (-1: none yet), lastKind the kind of that attack of the player; ownerMet
\* tells whether checkCollisions has run with a hitbox whose collider
\* intersected the model of its owner, sinceStagger the time since the last
\* takeDamage call that staggered the enemy (-1: none yet)
HistInit ==
    [dist |-> 0, hits |-> 0, sinceEnd |-> -1, sinceStart |-> -1, lastKind |-> "none",
     ownerMet |-> FALSE, sinceStagger |-> -1]

CombatInit ==
    /\ player = PlayerInit
    /\ enemy = [e \in EnemyIds |-> EnemyInit]
    /\ hitboxes = <<>>
    /\ timers = <<>>
    /\ sinceFrame = 0
    /\ hist = HistInit
    /\ boot = BootIdle
    /\ comp = CompIdle

\* CombatManager.createHitbox(parent, offset, size, damage, duration, options)
CreateHitbox(a) ==
    /\ Len(hitboxes) < MaxHitboxes
    /\ hitboxes' = Append(hitboxes, NewHitbox(Len(hitboxes), a))
    /\ UNCHANGED <<player, enemy, timers, sinceFrame>>

\* one animation frame: CombatManager.update(delta) with the time since the
\* last frame as delta
CombatUpdate(ov) ==
    /\ sinceFrame >= 1
    /\ \A t \in 1..Len(timers) : timers[t].remaining > 0
    /\ SetWorld(ManagerUpdate(World, sinceFrame, ov))
    /\ sinceFrame' = 0

\* 100 ms of wall-clock time pass; a due timer fires first
Elapse ==
    /\ sinceFrame < MaxDelta
    /\ \A t \in 1..Len(timers) : timers[t].remaining > 0
    /\ timers' = [t \in 1..Len(timers) |->
                    [timers[t] EXCEPT !.remaining = timers[t].remaining - 1]]
    /\ sinceFrame' = sinceFrame + 1
    /\ UNCHANGED <<player, enemy, hitboxes>>

\* the arguments of the createHitbox call in the callback of attack() and
\* heavyAttack()
PlayerHitboxArgs(kind) ==
    IF kind = "light"
    THEN [owner |-> "player", damage |-> Half(AttackPower), duration |-> 2, knockback |-> 2]
    ELSE [owner |-> "player", damage |-> 3 * AttackPower, duration |-> 3, knockback |-> 4]

\* the arguments of the createHitbox call in the callback of EnemyEntity.attack
EnemyHitboxArgs(e) ==
    [owner |-> e, damage |-> Half(EnemyAttackDamage), duration |-> 2, knockback |-> 1]

\* the callback of the setTimeout call tm records, on the world w: the stagger
\* recovery of takeDamage, and the hitbox creations of EnemyEntity.attack and
\* of PlayerEntity.attack and heavyAttack
Callback(w, tm) ==
    CASE tm.kind = "staggerRecover" ->
           [w EXCEPT !.enemy[tm.who] = StaggerRecover(w.enemy[tm.who])]
      [] tm.kind = "enemyHitbox" ->
           IF w.enemy[tm.who].currentState = "ATTACK" /\ w.enemy[tm.who].isAttacking
           THEN [w EXCEPT !.hitboxes =
                    Append(w.hitboxes, NewHitbox(Len(w.hitboxes), EnemyHitboxArgs(tm.who)))]
           ELSE w
      [] tm.kind = "playerHitbox" ->
           [w EXCEPT !.hitboxes =
               Append(w.hitboxes, NewHitbox(Len(w.hitboxes), PlayerHitboxArgs(tm.who)))]

\* the event loop runs the oldest due setTimeout callback
TimerFire ==
    /\ \E t \in 1..Len(timers) :
         /\ timers[t].remaining = 0
         /\ \A u \in 1..(t - 1) : timers[u].remaining > 0
         /\ LET w == Callback(World, timers[t])
            IN /\ player' = w.player
               /\ enemy' = w.enemy
               /\ hitboxes' = w.hitboxes
         /\ timers' = [u \in 1..(Len(timers) - 1) |->
                         IF u < t THEN timers[u] ELSE timers[u + 1]]
    /\ UNCHANGED sinceFrame

\* the damage a player can be dealt: the enemy's attack, and zero
PlayerDamageValues == {0, Half(EnemyAttackDamage)}

\* the damage an enemy can be dealt: the player's light and heavy attack, and zero
EnemyDamageValues == {0, Half(AttackPower), 3 * AttackPower}

\* the enemy that takes the direct takeDamage calls (enemies do not interact)
DamageTargets == {"knight1"}

\* a direct call of PlayerEntity.takeDamage(damage)
PlayerTakeDamageCall(damage) ==
    /\ player' = PlayerTakeDamage(player, damage)
    /\ UNCHANGED <<enemy, hitboxes, timers, sinceFrame>>

\* a direct call of EnemyEntity.takeDamage(damage)
EnemyTakeDamageCall(e, damage) ==
    /\ Len(timers) < MaxTimers
    /\ LET r == EnemyTakeDamage(enemy[e], e, damage)
       IN /\ enemy' = [enemy EXCEPT ![e] = r.ent]
          /\ timers' = timers \o r.sched
    /\ UNCHANGED <<player, hitboxes, sinceFrame>>

\* the hitboxes that exist or that a pending callback may still create
HitboxesDue ==
    Len(hitboxes)
    + Cardinality({t \in 1..Len(timers) : timers[t].kind \in {"enemyHitbox", "playerHitbox"}})

\* the frame time counted since an event, -1 while the event has not happened
Later(since, delta, cap) ==
    IF since < 0 THEN since
    ELSE IF since + delta > cap THEN cap ELSE since + delta

\* the distances from the enemy to the player's model an update can measure
EnemyDistances == {AttackRange, AttackRange + 1, DetectionRadius, DetectionRadius + 1}

\* one animation frame of the enemy e: EnemyEntity.update(delta, player) with
\* the time since the last frame as delta
EnemyFrame(e, dist, fin) ==
    /\ sinceFrame >= 1
    /\ \A t \in 1..Len(timers) : timers[t].remaining > 0
    /\ fin => enemy[e].combo # 0
    /\ LET r == EnemyUpdate(enemy[e], e, sinceFrame, dist, fin)
       IN /\ Len(timers) + Len(r.sched) <= MaxTimers
          /\ HitboxesDue + Len(r.sched) <= MaxHitboxes
          /\ enemy' = [enemy EXCEPT ![e] = r.ent]
          /\ timers' = timers \o r.sched
    /\ sinceFrame' = 0
    /\ UNCHANGED <<player, hitboxes>>

\* the update() of this step measured the distance dist
Seen(dist) == hist' = [hist EXCEPT !.dist = dist]

\* the same, with the frame time since the enemy's last attack finished
SeenAndTimed(dist, fin) ==
    hist' = [hist EXCEPT !.dist = dist,
                         !.sinceEnd = IF fin THEN 0
                                      ELSE Later(hist.sinceEnd, sinceFrame,
                                                 EnemyAttackCooldownTicks)]

\* a takeDamage call on the enemy e during the fight
EnemyHit(e, damage) ==
    /\ hist.hits < MaxHits
    /\ EnemyTakeDamageCall(e, damage)
    /\ hist' = [hist EXCEPT !.hits = hist.hits + 1, !.dist = 0]

\* the same call, with the time of the last hit that staggers kept: the hit
\* staggers when takeDamage schedules the recovery
StaggerHit(e, damage) ==
    /\ hist.hits < MaxHits
    /\ EnemyTakeDamageCall(e, damage)
    /\ hist' = [hist EXCEPT !.hits = hist.hits + 1,
                            !.dist = 0,
                            !.sinceStagger =
                                IF EnemyTakeDamage(enemy[e], e, damage).sched # <<>>
                                THEN 0 ELSE hist.sinceStagger]

\* 100 ms pass, on the clock of the last staggering hit too
StaggerClock ==
    /\ Elapse
    /\ hist' = [hist EXCEPT !.dist = 0,
                            !.sinceStagger = Later(hist.sinceStagger, 1,
                                                   StaggerRecoverTicks)]

\* the damage an enemy is dealt in the fight: another knight's attack, which
\* does not stagger, and the player's heavy attack, which does
FightDamageValues == {Half(EnemyAttackDamage), 3 * AttackPower}

\* a step of the fight that is no update() of the enemy
NoUpdate == hist' = [hist EXCEPT !.dist = 0]

\* the actions the movement keys select in PlayerEntity.update
PlayerMoves == {"idle", "walkForward", "runForward"}

\* one animation frame of the player: PlayerEntity.update(delta) with the time
\* since the last frame as delta
PlayerFrame(move, fin) ==
    /\ sinceFrame >= 1
    /\ \A t \in 1..Len(timers) : timers[t].remaining > 0
    /\ fin => player.slash # 0
    /\ player' = PlayerUpdate(player, sinceFrame, move, fin)
    /\ hist' = [hist EXCEPT !.sinceStart = Later(hist.sinceStart, sinceFrame,
                                                 HeavyCooldownTicks)]
    /\ sinceFrame' = 0
    /\ UNCHANGED <<enemy, hitboxes, timers>>

\* a call of PlayerEntity.attack() (kind "light") or heavyAttack() ("heavy")
AttackCall(kind) ==
    LET r == PlayerAttack(player, kind)
    IN /\ Len(timers) + Len(r.sched) <= MaxTimers
       /\ HitboxesDue + Len(r.sched) <= MaxHitboxes
       /\ player' = r.ent
       /\ timers' = timers \o r.sched
       /\ hist' = IF r.sched = <<>> THEN hist
                  ELSE [hist EXCEPT !.sinceStart = 0, !.lastKind = kind]
       /\ UNCHANGED <<enemy, hitboxes, sinceFrame>>

\* a takeDamage call on the player during the fight
PlayerHit(damage) ==
    /\ hist.hits < MaxHits
    /\ PlayerTakeDamageCall(damage)
    /\ hist' = [hist EXCEPT !.hits = hist.hits + 1]

\* the sets of entities a collider can intersect in a frame, per active
\* hitbox; the owner is left out, checkCollisions skips it before it tests
\* the boxes
Overlaps ==
    {ov \in [{i \in 1..Len(hitboxes) : hitboxes[i].active}
                -> SUBSET {Entities[k] : k \in 1..Len(Entities)}] :
        \A i \in DOMAIN ov : hitboxes[i].owner \notin ov[i]}

\* the same sets with the owner: a hitbox is placed at an offset from its
\* owner's model and can intersect the box around that model
OverlapsWithOwner ==
    [{i \in 1..Len(hitboxes) : hitboxes[i].active}
        -> SUBSET {Entities[k] : k \in 1..Len(Entities)}]

\* whether checkCollisions, in the frame with the intersections ov, tests a
\* hitbox whose collider intersects its owner
MeetsOwner(ov) ==
    \E i \in DOMAIN ov :
        LET hb == HitboxUpdate(hitboxes[i], sinceFrame)
        IN hb.active /\ hb.posed /\ hb.owner \in ov[i]

\* one animation frame in which hitboxes may intersect their owners
OwnerFrame(ov) ==
    /\ CombatUpdate(ov)
    /\ hist' = [hist EXCEPT !.ownerMet = hist.ownerMet \/ MeetsOwner(ov)]

-----------------------------------------------------------------------------
(* Patch-map GrassComponent (constructor(params), createPatch, removePatch,   *)
(* updatePatches).  World coordinates are integers; a patch key             *)
(* `${gridX},${gridZ}` is the pair <<gridX, gridZ>>.                         *)

\* this.terrainSize = params.terrainSize || 100
TerrainSize == 100
\* this.patchSize = params.patchSize || 10
PatchSize == 10
\* updatePatches: const renderDistance = 2
RenderDistance == 2

\* Math.ceil(a / b) for b > 0
CeilDiv(a, b) == -((-a) \div b)

\* this.gridSize = Math.ceil(this.terrainSize / this.patchSize)
GridSize == CeilDiv(TerrainSize, PatchSize)

\* Math.floor((playerX + terrainHalfSize) / this.patchSize)
PlayerGrid(pos) ==
    <<(pos[1] + TerrainSize \div 2) \div PatchSize,
      (pos[2] + TerrainSize \div 2) \div PatchSize>>

\* whether key is in a sequence of keys (Map.has)
Has(keys, key) == \E n \in 1..Len(keys) : keys[n] = key

\* the scene objects of a patch: patch.mesh and patch.debugMarker
PatchObjects(key) == {<<"mesh", key>>, <<"debugMarker", key>>}

\* createPatch(gridX, gridZ) on g = [active, scene]
CreatePatch(g, key) ==
    IF Has(g.active, key) THEN g
    ELSE [active |-> Append(g.active, key),
          scene  |-> g.scene \cup PatchObjects(key)]

\* the keys of updatePatches' two nested loops over dx and dz, in loop order
AroundKeys(pg) ==
    [n \in 1..((2 * RenderDistance + 1) * (2 * RenderDistance + 1)) |->
        <<pg[1] + ((n - 1) \div (2 * RenderDistance + 1)) - RenderDistance,
          pg[2] + ((n - 1) % (2 * RenderDistance + 1)) - RenderDistance>>]

\* gridX >= 0 && gridX < this.gridSize && gridZ >= 0 && gridZ < this.gridSize
InGrid(key) ==
    key[1] >= 0 /\ key[1] < GridSize /\ key[2] >= 0 /\ key[2] < GridSize

\* updatePatches, the creation loops: createPatch for every in-grid key of the
\* loops that activePatches lacks, in loop order (the keys of the loops differ)
CreateAround(g, pg) ==
    LET fresh == SelectSeq(AroundKeys(pg),
                           LAMBDA k : InGrid(k) /\ ~Has(g.active, k))
    IN [active |-> g.active \o fresh,
        scene  |-> g.scene \cup UNION {PatchObjects(fresh[n]) : n \in 1..Len(fresh)}]

\* updatePatches: the keys added to shouldBeActive
ShouldBeActive(pg) ==
    {key \in {AroundKeys(pg)[n] : n \in 1..Len(AroundKeys(pg))} : InGrid(key)}

\* updatePatches, the removal loop: removePatch(key), which takes the patch out
\* of activePatches and its objects out of the scene, for every key of
\* activePatches that shouldBeActive lacks
RemoveStale(g, keep) ==
    LET stale == {g.active[n] : n \in {m \in 1..Len(g.active) : g.active[m] \notin keep}}
    IN [active |-> SelectSeq(g.active, LAMBDA k : k \in keep),
        scene  |-> g.scene \ UNION {PatchObjects(k) : k \in stale}]

\* an updatePatches without the removal loop
UpdatePatchesKeepsStale(g, pos) ==
    CreateAround(CreatePatch(g, PlayerGrid(pos)), PlayerGrid(pos))

\* updatePatches() with the player at pos
UpdatePatches(g, pos) ==
    LET pg == PlayerGrid(pos)
        g1 == CreatePatch(g, pg)           \* force-create patch at player position
        g2 == CreateAround(g1, pg)
    IN RemoveStale(g2, ShouldBeActive(pg))

\* createTestPatches()
CreateTestPatches(g) ==
    LET c == GridSize \div 2
    IN CreatePatch(CreatePatch(CreatePatch(CreatePatch(g,
          <<c, c>>), <<c + 1, c>>), <<c, c + 1>>), <<c + 1, c + 1>>)

\* the world coordinates the player stands at, per axis: outside the terrain
\* on either side, on its edges, and inside
PatchCoords == {-65, -50, -13, 0, 49, 50, 75}

PatchPositions == {<<x, z>> : x \in PatchCoords, z \in PatchCoords}

PatchInit ==
    /\ activePatches = <<>>
    /\ sceneObjs = {}
    /\ patchPlayer \in PatchPositions
    /\ patchPhase = "constructed"

\* the constructor's loadShaders().then(...): createGrassGeometries (no state
\* here), createTestPatches, updatePatches
ShadersLoaded ==
    /\ patchPhase = "constructed"
    /\ LET g == UpdatePatches(
                  CreateTestPatches([active |-> activePatches, scene |-> sceneObjs]),
                  patchPlayer)
       IN /\ activePatches' = g.active
          /\ sceneObjs' = g.scene
    /\ patchPhase' = "ready"
    /\ UNCHANGED patchPlayer

\* a frame: the player has moved to pos, then update(deltaTime) runs
\* updatePatches (the uniforms it sets afterwards are rendering only)
PatchUpdate(pos) ==
    /\ patchPhase = "ready"
    /\ LET g == UpdatePatches([active |-> activePatches, scene |-> sceneObjs], pos)
       IN /\ activePatches' = g.active
          /\ sceneObjs' = g.scene
    /\ patchPlayer' = pos
    /\ UNCHANGED patchPhase

-----------------------------------------------------------------------------
(* LOD GrassComponent (constructor(scene, playerObject), init, createMesh,   *)
(* update, updateLOD, updateGrassPatches).  A mesh is named by its patch      *)
(* <<x, z>>: updateGrassPatches creates at most one mesh per position key.    *)
(* The per-mesh fields are kept as the sets of meshes that have them.         *)

GRASS_LOD_DIST == 7
GRASS_MAX_DIST == 150
GRASS_PATCH_SIZE == 10
PATCH_RADIUS == 9
BEHIND_PATCH_RADIUS == 3
TERRAIN_SIZE == 300

\* Math.floor(-terrainHalfSize / GRASS_PATCH_SIZE)
MinPatch == (-(TERRAIN_SIZE \div 2)) \div GRASS_PATCH_SIZE
\* Math.ceil(terrainHalfSize / GRASS_PATCH_SIZE)
MaxPatch == CeilDiv(TERRAIN_SIZE \div 2, GRASS_PATCH_SIZE)

\* the patches of updateGrassPatches' loops over x and z
GridCells == (MinPatch..MaxPatch) \X (MinPatch..MaxPatch)

\* patchPos: x * GRASS_PATCH_SIZE, 0, z * GRASS_PATCH_SIZE
PatchPos(c) == <<c[1] * GRASS_PATCH_SIZE, c[2] * GRASS_PATCH_SIZE>>

\* the square of camera.position.distanceTo(patchPos); a patch lies at y = 0
DistSq(cam, c) ==
    (cam.pos[1] - PatchPos(c)[1]) * (cam.pos[1] - PatchPos(c)[1])
    + cam.pos[2] * cam.pos[2]
    + (cam.pos[3] - PatchPos(c)[2]) * (cam.pos[3] - PatchPos(c)[2])

\* a level-of-detail test that also counts the threshold distance as far
ShouldBeLowDetailAtThreshold(cam, c) ==
    DistSq(cam, c) >= GRASS_LOD_DIST * GRASS_LOD_DIST

\* distToCamera > GRASS_LOD_DIST
ShouldBeLowDetail(cam, c) ==
    DistSq(cam, c) > GRASS_LOD_DIST * GRASS_LOD_DIST

\* Math.round(playerPos.x / GRASS_PATCH_SIZE): Math.round rounds halves up
PlayerPatch(pos) ==
    <<(2 * pos[1] + GRASS_PATCH_SIZE) \div (2 * GRASS_PATCH_SIZE),
      (2 * pos[2] + GRASS_PATCH_SIZE) \div (2 * GRASS_PATCH_SIZE)>>

\* relativePos.dot(playerDir) < 0
IsBehindPlayer(v, c) ==
    (PatchPos(c)[1] - v.playerPos[1]) * v.playerDir[1]
    + (PatchPos(c)[2] - v.playerPos[2]) * v.playerDir[2] < 0

\* Math.max(Math.abs(x - playerPatchX), Math.abs(z - playerPatchZ))
PatchDistance(v, c) ==
    LET dx == c[1] - PlayerPatch(v.playerPos)[1]
        dz == c[2] - PlayerPatch(v.playerPos)[2]
        ax == IF dx < 0 THEN -dx ELSE dx
        az == IF dz < 0 THEN -dz ELSE dz
    IN IF ax > az THEN ax ELSE az

\* isBehindPlayer ? BEHIND_PATCH_RADIUS : PATCH_RADIUS
EffectiveRadius(v, c) ==
    IF IsBehindPlayer(v, c) THEN BEHIND_PATCH_RADIUS ELSE PATCH_RADIUS

(* The camera.  CAMERA.camera is a PerspectiveCamera(40, aspect, 1, 2000); the *)
(* model keeps it level and turns it in quarter turns, takes 4/11 for the      *)
(* tangent of half the vertical field of view (20 degrees) and 2/3 for that of *)
(* half the horizontal one.  init()'s dummy camera has identity matrices: its  *)
(* frustum is the cube from -1 to 1.                                           *)
CameraNear == 1
CameraFar == 2000

\* the camera's forward direction in (x, z)
Forward(yaw) ==
    CASE yaw = "N" -> <<0, -1>>
      [] yaw = "E" -> <<1, 0>>
      [] yaw = "S" -> <<0, 1>>
      [] yaw = "W" -> <<-1, 0>>

\* Frustum.intersectsBox(box) for the box updateGrassPatches builds around
\* patchPos, of size (GRASS_PATCH_SIZE, GRASS_HEIGHT * 2, GRASS_PATCH_SIZE): for
\* each plane, the corner of the box farthest along the plane's normal must
\* not lie behind the plane.  Lengths are in tenths where GRASS_HEIGHT = 0.9
\* comes in.
InFrustum(cam, c) ==
    LET half == GRASS_PATCH_SIZE \div 2
        qx == PatchPos(c)[1] - cam.pos[1]
        qz == PatchPos(c)[2] - cam.pos[3]
    IN IF cam.yaw = "dummy"
       THEN /\ PatchPos(c)[1] + half >= -1 /\ PatchPos(c)[1] - half <= 1
            /\ PatchPos(c)[2] + half >= -1 /\ PatchPos(c)[2] - half <= 1
       ELSE LET f == Forward(cam.yaw)
                r == <<-f[2], f[1]>>
                ahead == f[1] * qx + f[2] * qz    \* centre, along the view
                aside == r[1] * qx + r[2] * qz    \* centre, to the right
                \* farthest corner along a normal n: n.q + half * (|nx| + |nz|)
                nearMax  == ahead + half
                farMin   == ahead - half
                leftMax  == 2 * ahead + 3 * aside + 5 * half
                rightMax == 2 * ahead - 3 * aside + 5 * half
                \* bottom plane 4 * ahead + 11 * y >= 0 at the top of the box, y = 0.9 - cam y
                bottomMax == 40 * nearMax + 11 * (9 - 10 * cam.pos[2])
                \* top plane 4 * ahead - 11 * y >= 0 at the bottom of the box
                topMax    == 40 * nearMax + 11 * (9 + 10 * cam.pos[2])
            IN /\ nearMax >= CameraNear
               /\ farMin <= CameraFar
               /\ leftMax >= 0
               /\ rightMax >= 0
               /\ bottomMax >= 0
               /\ topMax >= 0

\* updateGrassPatches: the patches the loops do not skip
Shown(v, c) ==
    PatchDistance(v, c) <= EffectiveRadius(v, c) \/ InFrustum(v.cam, c)

\* the set S, enumerated once into an explicit set of its elements
Enumerated(S) == {c : c \in S}

\* an updateLOD that returns to high detail only within 5 of the camera
UpdateLODWithHysteresis(g, cam) ==
    LET L == Enumerated({m \in g.children : m \notin g.isLowDetail /\ ShouldBeLowDetail(cam, m)})
        H == Enumerated({m \in g.children : m \in g.isLowDetail /\ DistSq(cam, m) < 5 * 5})
    IN [g EXCEPT
          !.meshesLow   = (g.meshesLow (-) SetToBag(H)) (+) SetToBag(L),
          !.meshesHigh  = (g.meshesHigh (-) SetToBag(L)) (+) SetToBag(H),
          !.lowGeometry = Enumerated((g.lowGeometry \ H) \cup L),
          !.lowMaterial = Enumerated((g.lowMaterial \ H) \cup L),
          !.isLowDetail = Enumerated((g.isLowDetail \ H) \cup L)]

\* updateLOD(camera): every child whose flag differs from shouldBeLowDetail
\* leaves the array its flag names (splice(indexOf(mesh), 1) removes one entry,
\* if there is one), takes the geometry and material of the new level, and is
\* pushed to the other array.  The code never reads the order of
\* grassGroup.children, meshesLow or meshesHigh: children is kept as a set and
\* the two arrays as bags.
UpdateLOD(g, cam) ==
    LET L == Enumerated({m \in g.children : m \notin g.isLowDetail /\ ShouldBeLowDetail(cam, m)})
        H == Enumerated({m \in g.children : m \in g.isLowDetail /\ ~ShouldBeLowDetail(cam, m)})
    IN [g EXCEPT
          !.meshesLow   = (g.meshesLow (-) SetToBag(H)) (+) SetToBag(L),
          !.meshesHigh  = (g.meshesHigh (-) SetToBag(L)) (+) SetToBag(H),
          !.lowGeometry = Enumerated((g.lowGeometry \ H) \cup L),
          !.lowMaterial = Enumerated((g.lowMaterial \ H) \cup L),
          !.isLowDetail = Enumerated((g.isLowDetail \ H) \cup L)]

\* an updateGrassPatches that does not hide the meshes first
UpdateGrassPatchesNoHide(g, v) ==
    LET fresh == Enumerated({c \in GridCells : Shown(v, c) /\ c \notin g.children})
        low   == Enumerated({c \in fresh : ShouldBeLowDetail(v.cam, c)})
    IN [children    |-> Enumerated(g.children \cup fresh),
        isLowDetail |-> Enumerated(g.isLowDetail \cup low),
        lowGeometry |-> Enumerated(g.lowGeometry \cup low),
        lowMaterial |-> Enumerated(g.lowMaterial \cup low),
        visible     |-> Enumerated(g.visible \cup {c \in g.children \cup fresh : Shown(v, c)}),
        meshesLow   |-> g.meshesLow (+) SetToBag(low),
        meshesHigh  |-> g.meshesHigh (+) SetToBag(fresh \ low)]

\* updateGrassPatches(camera) with the player pose of v: every child is hidden;
\* then every patch not skipped reuses the mesh of its key or gets one from
\* createMesh(distToCamera), which adds it to grassGroup and pushes it to
\* meshesLow or meshesHigh; the mesh is shown.
UpdateGrassPatches(g, v) ==
    LET fresh == Enumerated({c \in GridCells : Shown(v, c) /\ c \notin g.children})
        low   == Enumerated({c \in fresh : ShouldBeLowDetail(v.cam, c)})
    IN [children    |-> Enumerated(g.children \cup fresh),
        isLowDetail |-> Enumerated(g.isLowDetail \cup low),
        lowGeometry |-> Enumerated(g.lowGeometry \cup low),
        lowMaterial |-> Enumerated(g.lowMaterial \cup low),
        visible     |-> Enumerated({c \in g.children \cup fresh : Shown(v, c)}),
        meshesLow   |-> g.meshesLow (+) SetToBag(low),
        meshesHigh  |-> g.meshesHigh (+) SetToBag(fresh \ low)]

\* the constructor: no mesh yet
GrassConstructed ==
    [children |-> {}, isLowDetail |-> {}, lowGeometry |-> {}, lowMaterial |-> {},
     visible |-> {}, meshesLow |-> EmptyBag, meshesHigh |-> EmptyBag]

\* init(): dummyCamera = {position: (0, 2, 0), identity matrices}
DummyCamera == [pos |-> <<0, 2, 0>>, yaw |-> "dummy"]

\* the player when init() runs: at the origin, the model turned by Math.PI
StartPose == [playerPos |-> <<0, 0>>, playerDir |-> <<0, -1>>]

\* The frames the model tries: the player's position and direction and the
\* camera's position and quarter turn.
Views ==
    {\* the camera behind the player, 7 away from the patch at the origin
     [playerPos |-> <<0, 0>>, playerDir |-> <<0, -1>>,
      cam |-> [pos |-> <<3, 2, 6>>, yaw |-> "N"]],
     \* the camera one unit further back
     [playerPos |-> <<0, 0>>, playerDir |-> <<0, -1>>,
      cam |-> [pos |-> <<3, 2, 7>>, yaw |-> "N"]],
     \* the player halfway between patch centres
     [playerPos |-> <<25, -35>>, playerDir |-> <<1, 0>>,
      cam |-> [pos |-> <<19, 2, -35>>, yaw |-> "E"]],
     \* near a corner of the terrain, looking out of it
     [playerPos |-> <<140, 140>>, playerDir |-> <<0, 1>>,
      cam |-> [pos |-> <<140, 2, 134>>, yaw |-> "S"]],
     \* outside the terrain, walking away from it
     [playerPos |-> <<-160, 0>>, playerDir |-> <<-1, 0>>,
      cam |-> [pos |-> <<-154, 2, 0>>, yaw |-> "W"]]}

LodInit ==
    /\ grass = GrassConstructed
    /\ view = [playerPos |-> StartPose.playerPos, playerDir |-> StartPose.playerDir,
               cam |-> DummyCamera, phase |-> "constructed"]
    /\ switched = {}
    /\ created = {}

\* init(): updateGrassPatches(dummyCamera)
GrassInit ==
    /\ view.phase = "constructed"
    /\ grass' = UpdateGrassPatches(grass, view)
    /\ created' = Enumerated(grass'.children \ grass.children)
    /\ view' = [view EXCEPT !.phase = "running"]
    /\ UNCHANGED switched

\* a frame: the player and the camera have moved to v, then
\* update(delta, camera) runs updateLOD and updateGrassPatches
GrassUpdate(v) ==
    /\ view.phase = "running"
    /\ LET g == UpdateLOD(grass, v.cam)
       IN /\ grass' = UpdateGrassPatches(g, v)
          /\ switched' = Enumerated((g.isLowDetail \ grass.isLowDetail)
                                        \cup (grass.isLowDetail \ g.isLowDetail))
          /\ created' = Enumerated(grass'.children \ grass.children)
    /\ view' = [playerPos |-> v.playerPos, playerDir |-> v.playerDir,
                cam |-> v.cam, phase |-> "running"]

-----------------------------------------------------------------------------
(* Patch-map GrassComponent: building it and creating patches *)

\* the patches created here, the offsets Math.random() * patchSize of the
\* blade that is observed
BladeKeys == {<<2, 2>>, <<2, 3>>, <<3, 2>>}
BladeOffsets == {0, 5}

\* new GrassComponent(params)
NewGrassComponent ==
    /\ ~comp.built
    /\ comp' = Constructor(comp)
    /\ UNCHANGED <<activePatches, sceneObjs, patchPlayer, patchPhase>>

\* createPatch(gridX, gridZ) of a key that is not active: the patch gets
\* InstanceCount blades, each at a random place in the patch at the height
\* sampleHeight gives; the blade at offset (rx, rz) is recorded
CreatePatchBlades(key, rx, rz) ==
    /\ comp.built
    /\ ~Has(activePatches, key)
    /\ LET g == CreatePatch([active |-> activePatches, scene |-> sceneObjs], key)
           x == key[1] * comp.patchSize - comp.terrainSize \div 2 + rx
           z == key[2] * comp.patchSize - comp.terrainSize \div 2 + rz
       IN /\ activePatches' = g.active
          /\ sceneObjs' = g.scene
          /\ comp' = [comp EXCEPT !.last =
                         [key |-> key, count |-> InstanceCount(comp),
                          x |-> x, z |-> z, y |-> SampleHeight(comp, x, z)]]
    /\ UNCHANGED <<patchPlayer, patchPhase>>

-----------------------------------------------------------------------------
(* Specifications *)

PatchIdleInit ==
    /\ activePatches = <<>>
    /\ sceneObjs = {}
    /\ patchPlayer = <<0, 0>>
    /\ patchPhase = "constructed"

LodIdleInit == LodInit

\* Combat: hitboxes are created, frames run CombatManager.update, timers fire
Init == CombatInit /\ PatchIdleInit /\ LodIdleInit

Next ==
    \/ \E a \in HitboxArgs : CreateHitbox(a) /\ UNCHANGED <<patchVars, lodVars, auxVars>>
    \/ \E ov \in Overlaps : CombatUpdate(ov) /\ UNCHANGED <<patchVars, lodVars, auxVars>>
    \/ Elapse /\ UNCHANGED <<patchVars, lodVars, auxVars>>
    \/ TimerFire /\ UNCHANGED <<patchVars, lodVars, auxVars>>

Spec == Init /\ [][Next]_vars

\* the hitboxes of two owners, the player's light attack and a knight's attack
OwnerHitboxArgs == {PlayerHitboxArgs("light"), EnemyHitboxArgs("knight1")}

\* the combat manager with hitboxes that may intersect their owners
NextOwner ==
    \/ \E a \in OwnerHitboxArgs : CreateHitbox(a) /\ UNCHANGED <<patchVars, lodVars, auxVars>>
    \/ \E ov \in OverlapsWithOwner : OwnerFrame(ov) /\ UNCHANGED idleVars
    \/ Elapse /\ UNCHANGED <<patchVars, lodVars, auxVars>>
    \/ TimerFire /\ UNCHANGED <<patchVars, lodVars, auxVars>>

SpecOwner == Init /\ [][NextOwner]_vars

\* Damage: takeDamage is called directly on the entities, with no hitbox
NextDamage ==
    \/ \E d \in PlayerDamageValues :
           PlayerTakeDamageCall(d) /\ UNCHANGED <<patchVars, lodVars, auxVars>>
    \/ \E e \in DamageTargets, d \in EnemyDamageValues :
           EnemyTakeDamageCall(e, d) /\ UNCHANGED <<patchVars, lodVars, auxVars>>
    \/ \E ov \in Overlaps : CombatUpdate(ov) /\ UNCHANGED <<patchVars, lodVars, auxVars>>
    \/ Elapse /\ UNCHANGED <<patchVars, lodVars, auxVars>>
    \/ TimerFire /\ UNCHANGED <<patchVars, lodVars, auxVars>>

SpecDamage == Init /\ [][NextDamage]_vars

\* a knight the player's heavy attack has hit n times, recovered from the
\* last stagger, with no update() run yet
EnemyHitTimes(n) ==
    [EnemyInit EXCEPT !.health = Half(EnemyMaxHealth) - n * (3 * AttackPower),
                      !.currentState = "CHASE",
                      !.currentAction = "hit"]

\* a knight that the next but one heavy attack kills, one that the next kills
EnemyWorn == EnemyHitTimes(12)
EnemyNearDeath == EnemyHitTimes(13)

\* a player the knights' attack has hit six times, recovered from the last
\* stagger and standing still
PlayerWorn ==
    [PlayerInit EXCEPT !.health = Half(PlayerMaxHealth) - 6 * Half(EnemyAttackDamage),
                       !.activeAction = "idle"]

\* the enemy's own behaviour: a fresh or a worn knight1 runs its update() once
\* per frame and takes direct takeDamage calls, and its timers fire
InitEnemy ==
    /\ player = PlayerInit
    /\ enemy \in {[e \in EnemyIds |-> IF e \in DamageTargets THEN k ELSE EnemyInit]
                     : k \in {EnemyInit, EnemyWorn, EnemyNearDeath}}
    /\ hitboxes = <<>>
    /\ timers = <<>>
    /\ sinceFrame = 0
    /\ hist = HistInit
    /\ boot = BootIdle
    /\ comp = CompIdle
    /\ PatchIdleInit /\ LodIdleInit

NextEnemy ==
    \/ \E e \in DamageTargets, dist \in EnemyDistances, fin \in BOOLEAN :
           EnemyFrame(e, dist, fin) /\ Seen(dist) /\ UNCHANGED idleVars
    \/ \E e \in DamageTargets, d \in FightDamageValues :
           EnemyHit(e, d) /\ UNCHANGED idleVars
    \/ Elapse /\ NoUpdate /\ UNCHANGED idleVars
    \/ TimerFire /\ NoUpdate /\ UNCHANGED idleVars

SpecEnemy == InitEnemy /\ [][NextEnemy]_vars

\* the three setTimeout callbacks: a worn knight with the player in attack
\* range runs its update() and is hit by heavy attacks, the player attacks,
\* and the timers fire
InitCallbacks ==
    /\ player = PlayerInit
    /\ enemy = [e \in EnemyIds |-> IF e \in DamageTargets THEN EnemyWorn ELSE EnemyInit]
    /\ hitboxes = <<>>
    /\ timers = <<>>
    /\ sinceFrame = 0
    /\ hist = HistInit
    /\ boot = BootIdle
    /\ comp = CompIdle
    /\ PatchIdleInit /\ LodIdleInit

NextCallbacks ==
    \/ \E e \in DamageTargets, fin \in BOOLEAN :
           EnemyFrame(e, AttackRange, fin) /\ Seen(AttackRange) /\ UNCHANGED idleVars
    \/ \E e \in DamageTargets :
           EnemyHit(e, 3 * AttackPower) /\ UNCHANGED idleVars
    \/ \E kind \in {"light", "heavy"} :
           AttackCall(kind) /\ UNCHANGED idleVars
    \/ Elapse /\ NoUpdate /\ UNCHANGED idleVars
    \/ TimerFire /\ NoUpdate /\ UNCHANGED idleVars

SpecCallbacks == InitCallbacks /\ [][NextCallbacks]_vars

\* the same behaviour with the frame time since the last attack finished
\* kept in the history
NextCooldown ==
    \/ \E e \in DamageTargets, dist \in EnemyDistances, fin \in BOOLEAN :
           EnemyFrame(e, dist, fin) /\ SeenAndTimed(dist, fin) /\ UNCHANGED idleVars
    \/ \E e \in DamageTargets, d \in FightDamageValues :
           EnemyHit(e, d) /\ UNCHANGED idleVars
    \/ Elapse /\ NoUpdate /\ UNCHANGED idleVars
    \/ TimerFire /\ NoUpdate /\ UNCHANGED idleVars

SpecCooldown == InitEnemy /\ [][NextCooldown]_vars

\* the same behaviour with the time since the last staggering hit kept in
\* the history
NextStagger ==
    \/ \E e \in DamageTargets, dist \in EnemyDistances, fin \in BOOLEAN :
           EnemyFrame(e, dist, fin) /\ Seen(dist) /\ UNCHANGED idleVars
    \/ \E e \in DamageTargets, d \in FightDamageValues :
           StaggerHit(e, d) /\ UNCHANGED idleVars
    \/ StaggerClock /\ UNCHANGED idleVars
    \/ TimerFire /\ NoUpdate /\ UNCHANGED idleVars

SpecStagger == InitEnemy /\ [][NextStagger]_vars

\* the player's own behaviour: a fresh or a worn player runs its update() once
\* per frame, attack() and heavyAttack() and direct takeDamage calls are made
\* at any time, and its timers fire
InitPlayer ==
    /\ player \in {PlayerInit, PlayerWorn}
    /\ enemy = [e \in EnemyIds |-> EnemyInit]
    /\ hitboxes = <<>>
    /\ timers = <<>>
    /\ sinceFrame = 0
    /\ hist = HistInit
    /\ boot = BootIdle
    /\ comp = CompIdle
    /\ PatchIdleInit /\ LodIdleInit

NextPlayer ==
    \/ \E move \in PlayerMoves, fin \in BOOLEAN :
           PlayerFrame(move, fin) /\ UNCHANGED idleVars
    \/ \E kind \in {"light", "heavy"} :
           AttackCall(kind) /\ UNCHANGED idleVars
    \/ \E d \in PlayerDamageValues :
           PlayerHit(d) /\ UNCHANGED idleVars
    \/ Elapse /\ UNCHANGED <<patchVars, lodVars, auxVars>>
    \/ TimerFire /\ UNCHANGED <<patchVars, lodVars, auxVars>>

SpecPlayer == InitPlayer /\ [][NextPlayer]_vars

\* update() keeps being called: the frame of the animation loop
PlayerFrames ==
    \E move \in PlayerMoves, fin \in BOOLEAN :
        PlayerFrame(move, fin) /\ UNCHANGED idleVars

\* the frame whose mixer.update(delta) takes the slash action to its end
SlashEnds ==
    \E move \in PlayerMoves : PlayerFrame(move, TRUE) /\ UNCHANGED idleVars

\* the same behaviour under the scheduling of the browser: time passes, the
\* animation loop keeps calling update(), a due setTimeout callback is run,
\* and a clip, being of finite length, ends if its action keeps running
PlayerFairness ==
    /\ WF_vars(Elapse /\ UNCHANGED <<patchVars, lodVars, auxVars>>)
    /\ WF_vars(TimerFire /\ UNCHANGED <<patchVars, lodVars, auxVars>>)
    /\ WF_vars(PlayerFrames)
    /\ SF_vars(SlashEnds)

SpecPlayerLive == InitPlayer /\ [][NextPlayer]_vars /\ PlayerFairness

\* the start of the application, for every file the server may hold
InitStartup ==
    /\ player = PlayerInit
    /\ enemy = [e \in EnemyIds |-> EnemyInit]
    /\ hitboxes = <<>>
    /\ timers = <<>>
    /\ sinceFrame = 0
    /\ hist = HistInit
    /\ boot \in {BootStart(a, c, k) : a \in {"ok", "fails"},
                                      c \in Lacking(PlayerClips),
                                      k \in Lacking(KnightClips)}
    /\ comp = CompIdle
    /\ PatchIdleInit /\ LodIdleInit

NextStartup ==
    \/ StartInit /\ UNCHANGED <<combatVars, patchVars, lodVars, hist, comp>>
    \/ LoadSettles /\ UNCHANGED <<combatVars, patchVars, lodVars, hist, comp>>
    \/ ConstructPlayer /\ UNCHANGED <<combatVars, patchVars, lodVars, hist, comp>>
    \/ \E move \in PlayerMoves :
           AnimateFrame(move) /\ UNCHANGED <<combatVars, patchVars, lodVars, hist, comp>>
    \/ ConstructKnight /\ UNCHANGED <<combatVars, patchVars, lodVars, hist, comp>>
    \/ \E name \in {"idle", "walk", "comboAttack"} :
           KnightFrame(name) /\ UNCHANGED <<combatVars, patchVars, lodVars, hist, comp>>

SpecStartup == InitStartup /\ [][NextStartup]_vars

\* a patch-map component is built from a params object and creates patches
InitBlades ==
    /\ player = PlayerInit
    /\ enemy = [e \in EnemyIds |-> EnemyInit]
    /\ hitboxes = <<>>
    /\ timers = <<>>
    /\ sinceFrame = 0
    /\ hist = HistInit
    /\ boot = BootIdle
    /\ comp \in {NotBuilt(p) : p \in GrassParamSets}
    /\ PatchIdleInit /\ LodIdleInit

NextBlades ==
    \/ NewGrassComponent /\ UNCHANGED <<combatVars, lodVars, hist, boot>>
    \/ \E key \in BladeKeys, rx \in BladeOffsets, rz \in BladeOffsets :
           CreatePatchBlades(key, rx, rz) /\ UNCHANGED <<combatVars, lodVars, hist, boot>>

SpecBlades == InitBlades /\ [][NextBlades]_vars

\* Patch streaming: the patch-map GrassComponent follows a moving player
InitPatch == CombatInit /\ PatchInit /\ LodIdleInit

NextPatch ==
    \/ ShadersLoaded /\ UNCHANGED <<combatVars, lodVars, auxVars>>
    \/ \E pos \in PatchPositions : PatchUpdate(pos) /\ UNCHANGED <<combatVars, lodVars, auxVars>>

SpecPatch == InitPatch /\ [][NextPatch]_vars

\* Grass LOD: the LOD GrassComponent is updated frame by frame
InitLOD == CombatInit /\ PatchIdleInit /\ LodInit

NextLOD ==
    \/ GrassInit /\ UNCHANGED <<combatVars, patchVars, auxVars>>
    \/ \E v \in Views : GrassUpdate(v) /\ UNCHANGED <<combatVars, patchVars, auxVars>>

SpecLOD == InitLOD /\ [][NextLOD]_vars

-----------------------------------------------------------------------------
(* Claims on combat *)

\* C1: a hitbox deals damage at most once: over any sequence of
\* CombatManager.update() calls each hitbox causes at most one takeDamage call,
\* counted over all registered entities.
C1_DamageAtMostOnce ==
    \A i \in 1..Len(hitboxes) : hitboxes[i].dealt <= 1

\* C2: the player's health is between 0 and maxHealth in every reachable state.
C2_PlayerHealthInRange ==
    /\ player.health >= 0
    /\ player.health <= Half(PlayerMaxHealth)

\* C2 witness: the killing blow has landed (100 is no multiple of 15, so the
\* subtraction went below zero).
C2_Witness ==
    /\ player.currentState = "DEAD"
    /\ player.health = 0

\* C3: an enemy's data.health is at least 0 in every reachable state, the
\* killing blow included.
C3_EnemyHealthNonNegative ==
    \A e \in EnemyIds : enemy[e].health >= 0

\* a hitbox has ended: its time is up, or it has registered a hit
Ended(hb) == hb.timeRemaining <= 0 \/ hb.dealt > 0

\* C4: once a hitbox's timeRemaining has reached zero or it has registered a
\* hit, it is inactive, it never becomes active again, and it applies no damage
\* and no knockback in any later frame.
C4_HitboxEnds ==
    /\ [](\A i \in 1..Len(hitboxes) : Ended(hitboxes[i]) => ~hitboxes[i].active)
    /\ [][\A i \in 1..Len(hitboxes) :
            Ended(hitboxes[i]) =>
               /\ Ended(hitboxes'[i])
               /\ ~hitboxes'[i].active
               /\ hitboxes'[i].dealt = hitboxes[i].dealt
               /\ hitboxes'[i].pushed = hitboxes[i].pushed]_vars

\* C4 witness: one hitbox ended by a hit and one by expiry, and frames have run
\* since each ended.
C4_Witness ==
    /\ \E i \in 1..Len(hitboxes) :
          hitboxes[i].dealt > 0 /\ ~hitboxes[i].active /\ hitboxes[i].outlived
    /\ \E j \in 1..Len(hitboxes) :
          /\ hitboxes[j].dealt = 0 /\ hitboxes[j].timeRemaining <= 0
          /\ ~hitboxes[j].active /\ hitboxes[j].outlived

\* C5: a hitbox that has expired or hit is no longer held in
\* CombatManager.hitboxes: every stored hitbox is a live one.
C5_OnlyLiveHitboxesStored ==
    \A i \in 1..Len(hitboxes) : ~Ended(hitboxes[i]) /\ hitboxes[i].active

-----------------------------------------------------------------------------
(* Claims on the patch-map GrassComponent *)

\* the grid cell the player stands in: the cell whose square holds the position
CellOfPlayer ==
    LET Along(a) ==
            CHOOSE n \in (-GridSize)..(2 * GridSize) :
                /\ n * PatchSize <= patchPlayer[a] + TerrainSize \div 2
                /\ patchPlayer[a] + TerrainSize \div 2 < (n + 1) * PatchSize
    IN <<Along(1), Along(2)>>

Abs(n) == IF n < 0 THEN -n ELSE n

\* the in-grid cells within 2 cells (Chebyshev distance) of the player's cell
SquareAroundPlayer ==
    LET p == CellOfPlayer
    IN {c \in (0..(GridSize - 1)) \X (0..(GridSize - 1)) :
           Abs(c[1] - p[1]) <= 2 /\ Abs(c[2] - p[2]) <= 2}

\* C6: after every updatePatches() the active patches are exactly the in-grid
\* cells within 2 cells of the player's grid cell, each once, and the scene
\* holds the objects of exactly these patches, also when the player stands
\* outside the grid.
C6_ActivePatchesAreTheSquare ==
    patchPhase = "ready" =>
        LET square == SquareAroundPlayer
        IN /\ {activePatches[n] : n \in 1..Len(activePatches)} = square
           /\ Len(activePatches) = Cardinality(square)
           /\ sceneObjs = {"mesh", "debugMarker"} \X square

\* C6 witness: the player stands outside the grid and part of the square is
\* inside it, after an update.
C6_Witness ==
    /\ patchPhase = "ready"
    /\ CellOfPlayer \notin (0..(GridSize - 1)) \X (0..(GridSize - 1))
    /\ Len(activePatches) > 0
    /\ Len(activePatches) < 15


-----------------------------------------------------------------------------
(* Claims on the LOD GrassComponent *)

\* the patch whose centre is nearest to the player (halves go up, as Math.round)
NearestPatch(pos) ==
    <<CHOOSE px \in (MinPatch - 5)..(MaxPatch + 5) :
          10 * px - 5 <= pos[1] /\ pos[1] < 10 * px + 5,
      CHOOSE pz \in (MinPatch - 5)..(MaxPatch + 5) :
          10 * pz - 5 <= pos[2] /\ pos[2] < 10 * pz + 5>>

\* the Chebyshev distance, in patches, from patch c to the player's patch
PatchesAway(c) ==
    LET p == NearestPatch(view.playerPos)
    IN IF Abs(c[1] - p[1]) > Abs(c[2] - p[2])
       THEN Abs(c[1] - p[1]) ELSE Abs(c[2] - p[2])

\* patch c lies behind the player: against the direction the player faces
BehindPlayer(c) ==
    (10 * c[1] - view.playerPos[1]) * view.playerDir[1]
    + (10 * c[2] - view.playerPos[2]) * view.playerDir[2] < 0

WithinEffectiveRadius(c) ==
    PatchesAway(c) <= (IF BehindPlayer(c) THEN 3 ELSE 9)

\* C7: after every updateGrassPatches(camera), a patch mesh is visible if and
\* only if its patch is within the effective radius of the player's patch
\* (Chebyshev distance <= 9 in front of the player, <= 3 behind) or its
\* bounding box intersects the camera frustum; every other existing mesh is
\* hidden.
C7_VisibleIffNearOrInFrustum ==
    view.phase = "running" =>
        /\ grass.visible \subseteq grass.children
        /\ \A c \in GridCells \cup grass.children :
               (c \in grass.visible) <=>
                   (c \in GridCells
                    /\ (WithinEffectiveRadius(c) \/ InFrustum(view.cam, c)))

\* after an update with a real camera: a mesh made earlier is hidden, a patch
\* beyond 9 patches is shown because the camera sees it, a patch within 3
\* patches behind the player is shown, and one 4 to 9 patches behind is not
C7_Witness ==
    /\ view.phase = "running"
    /\ view.cam.yaw # "dummy"
    /\ grass.children \ grass.visible # {}
    /\ \E c \in grass.visible : PatchesAway(c) > 9
    /\ \E c \in grass.visible : BehindPlayer(c) /\ PatchesAway(c) = 3
    /\ \E c \in GridCells :
           BehindPlayer(c) /\ PatchesAway(c) > 3 /\ PatchesAway(c) <= 9
           /\ c \notin grass.visible

\* C8: after every update(delta, camera), each grass mesh is low-detail if and
\* only if its distance to the camera exceeds GRASS_LOD_DIST (7), its geometry
\* and material are the ones of that level, and the mesh is in exactly one of
\* meshesLow / meshesHigh, the one matching its flag; this holds for meshes
\* created in that same update too.
C8_LodIsDistanceThreshold ==
    view.phase = "running" =>
        /\ \A m \in grass.children :
               /\ (m \in grass.isLowDetail) <=> (DistSq(view.cam, m) > 7 * 7)
               /\ (m \in grass.lowGeometry) <=> (m \in grass.isLowDetail)
               /\ (m \in grass.lowMaterial) <=> (m \in grass.isLowDetail)
        /\ BagToSet(grass.meshesLow) = grass.isLowDetail
        /\ BagToSet(grass.meshesHigh) = grass.children \ grass.isLowDetail
        /\ \A m \in grass.children :
               CopiesIn(m, grass.meshesLow) + CopiesIn(m, grass.meshesHigh) = 1

\* an update created a low-detail mesh, switched an older mesh to low detail,
\* and left a mesh at distance exactly 7 in high detail
C8_Witness ==
    /\ view.phase = "running"
    /\ created \cap grass.isLowDetail # {}
    /\ switched \cap grass.isLowDetail # {}
    /\ \E m \in grass.children \ grass.isLowDetail : DistSq(view.cam, m) = 7 * 7

\* the camera of the next frame is at most one unit away from this frame's
CameraNudged ==
    /\ view.phase = "running" /\ view'.phase = "running"
    /\ view.cam.yaw = view'.cam.yaw
    /\ Abs(view'.cam.pos[1] - view.cam.pos[1])
       + Abs(view'.cam.pos[2] - view.cam.pos[2])
       + Abs(view'.cam.pos[3] - view.cam.pos[3]) <= 1

\* C9 as stated: the LOD switch has hysteresis, so a camera oscillating by a
\* small amount around one distance cannot make a patch change LOD level on
\* every frame: a mesh whose level changed in one frame keeps it in the next
\* frame when the camera moved by at most one unit.
C9_Hysteresis ==
    [][CameraNudged => switched \cap switched' = {}]_vars

\* C9 amended: both switches happen at the single distance GRASS_LOD_DIST = 7.
\* In every update a high-detail mesh switches to low detail exactly when its
\* distance to the camera exceeds 7, and a low-detail mesh switches back
\* exactly when its distance is at most 7.
C9_SingleThreshold ==
    [][(view.phase = "running" /\ view'.phase = "running") =>
          \A m \in grass.children :
              /\ (m \notin grass.isLowDetail /\ m \in grass'.isLowDetail)
                     <=> (m \notin grass.isLowDetail /\ DistSq(view'.cam, m) > 7 * 7)
              /\ (m \in grass.isLowDetail /\ m \notin grass'.isLowDetail)
                     <=> (m \in grass.isLowDetail /\ DistSq(view'.cam, m) <= 7 * 7)
              /\ (m \in switched')
                     <=> ((m \in grass.isLowDetail) # (m \in grass'.isLowDetail))]_vars

\* the last update switched a mesh back to high detail at distance exactly 7
C9_Witness ==
    /\ view.phase = "running"
    /\ \E m \in switched : m \notin grass.isLowDetail /\ DistSq(view.cam, m) = 7 * 7

\* C10: after each per-frame grass update, no visible patch has its centre
\* farther from the camera than GRASS_MAX_DIST = 150.
C10_NoVisiblePatchBeyondMaxDist ==
    view.phase = "running" =>
        \A c \in grass.visible : DistSq(view.cam, c) <= 150 * 150


-----------------------------------------------------------------------------
(* Entities between frames *)

\* a step that runs an update()
IsFrame == sinceFrame >= 1 /\ sinceFrame' = 0

\* a step that is a direct takeDamage call
IsDamageCall == hist'.hits = hist.hits + 1

\* a step in which an attack of the player starts
PlayerAttackStarts == ~player.isAttacking /\ player'.isAttacking

\* a step that runs a setTimeout callback (nothing else removes a timer)
IsCallback == Len(timers') < Len(timers)

\* the state of the enemy e the entities' logic reads
SameEnemy(e) ==
    /\ enemy'[e].currentState = enemy[e].currentState
    /\ enemy'[e].health = enemy[e].health
    /\ enemy'[e].isAttacking = enemy[e].isAttacking
    /\ enemy'[e].isHostile = enemy[e].isHostile
    /\ enemy'[e].attackCooldown = enemy[e].attackCooldown

\* C11 as stated: no timer or deferred callback changes the state of an
\* entity or the hitbox list between frames
C11_NoCallbackChangesState ==
    [][IsCallback =>
         /\ player' = player
         /\ hitboxes' = hitboxes
         /\ \A e \in EnemyIds : SameEnemy(e)]_vars

\* C11: outside update() and the takeDamage and attack calls, entity state
\* and hitbox list change only in a setTimeout callback, which either brings
\* one enemy from STAGGERED to CHASE or appends one hitbox to the list, and
\* nothing else
C11_OnlyCallbacksChangeStateBetweenFrames ==
    [][(~IsFrame /\ ~IsDamageCall /\ ~PlayerAttackStarts) =>
         /\ player' = player
         /\ \/ /\ hitboxes' = hitboxes
               /\ \A e \in EnemyIds : SameEnemy(e)
            \/ /\ IsCallback
               /\ hitboxes' = hitboxes
               /\ \E e \in EnemyIds :
                     /\ enemy[e].currentState = "STAGGERED"
                     /\ enemy'[e] = [enemy[e] EXCEPT !.currentState = "CHASE",
                                                      !.entered = <<>>]
                     /\ \A o \in EnemyIds \ {e} : SameEnemy(o)
            \/ /\ IsCallback
               /\ Len(hitboxes') = Len(hitboxes) + 1
               /\ SubSeq(hitboxes', 1, Len(hitboxes)) = hitboxes
               /\ \A e \in EnemyIds : SameEnemy(e)]_vars

\* a callback has brought the knight back from a stagger of this fight, and
\* callbacks have put the hitbox of its attack and the hitbox of an attack of
\* the player into the list
C11_Witness ==
    /\ hist.hits >= 1
    /\ enemy["knight1"].currentState = "CHASE"
    /\ enemy["knight1"].currentAction = "hit"
    /\ \E i \in 1..Len(hitboxes) : hitboxes[i].owner = "knight1"
    /\ \E i \in 1..Len(hitboxes) : hitboxes[i].owner = "player"

-----------------------------------------------------------------------------
(* Missing clips and failed loads *)

\* C12 as stated: with the model file loaded, a missing animation clip makes
\* neither the construction of an entity nor a later update() raise
C12_MissingClipNeverRaises ==
    boot.asset = "ok" => ~boot.unhandled /\ ~boot.raised

\* C13 as stated: a failed asset load does not end init() in an unhandled
\* rejection
C13_FailedLoadIsHandled ==
    boot.asset = "fails" => ~boot.unhandled

-----------------------------------------------------------------------------
(* Blades of a patch *)

\* the pixels of the textures, 0..255: flat is black, ridge is white where
\* x >= 0
MapValue(map, x, z) == IF map = "ridge" /\ x >= 0 THEN 255 ELSE 0

\* the height of the terrain the texture describes at (x, z), in thousandths
HeightmapHeight(c, x, z) ==
    1000 * c.minHeight
    + (1000 * MapValue(c.params.map, x, z) * (c.maxHeight - c.minHeight)) \div 255
    + 1000 * c.heightOffset

\* C14 as stated: in a component built as the usage example shows, with the
\* texture passed as heightmap, every blade stands at the height sampled from
\* that texture
C14_BladeAtHeightmapHeight ==
    (comp.params.key = "heightmap" /\ comp.last.count >= 0)
        => comp.last.y = HeightmapHeight(comp, comp.last.x, comp.last.z)

\* C15 as stated: a patch holds floor(patchSize * patchSize * density) blades,
\* density being the constructor's
C15_BladeCountFromDensity ==
    comp.last.count >= 0
        => comp.last.count = comp.patchSize * comp.patchSize * comp.density

-----------------------------------------------------------------------------
(* The enemy's detection *)

\* the knight whose update() runs
Knight == enemy["knight1"]

\* C16: an idle, non-hostile enemy becomes hostile and enters AWARE in the
\* first update() that finds the player within detectionRadius (50); a step
\* that is neither such an update nor a takeDamage call leaves it idle and
\* non-hostile
C16_DetectionMakesHostile ==
    [][(Knight.currentState = "IDLE" /\ ~Knight.isHostile) =>
         IF IsFrame /\ hist'.dist <= DetectionRadius
         THEN /\ Knight'.isHostile
              /\ Knight'.entered # <<>>
              /\ Knight'.entered[1] = "AWARE"
              /\ Knight'.currentState \in {"AWARE", "CHASE"}
         ELSE IF IsDamageCall THEN TRUE
         ELSE Knight'.currentState = "IDLE" /\ ~Knight'.isHostile]_vars

\* the update that found the player at distance 50 has just made an undamaged
\* knight hostile and aware
C16_Witness ==
    /\ hist.dist = DetectionRadius
    /\ hist.hits = 0
    /\ Knight.isHostile
    /\ Knight.currentState = "AWARE"
    /\ Knight.entered = <<"AWARE">>

-----------------------------------------------------------------------------
(* The enemy's attack cooldown *)

\* an update() in which the knight starts an attack
EnemyAttackStarts == ~Knight.isAttacking /\ Knight'.isAttacking

\* C17 as stated: after an attack of the enemy has finished, the enemy starts
\* its next attack only when at least data.attackCooldown (2.0 s) of frame
\* time has passed, however the player moves in and out of attack range
C17_CooldownBetweenAttacks ==
    [][EnemyAttackStarts =>
         hist.sinceEnd < 0 \/ hist'.sinceEnd >= EnemyAttackCooldownTicks]_vars

-----------------------------------------------------------------------------
(* Death is final *)

\* C18 as stated: once the player's currentState is DEAD it stays DEAD and
\* health stays 0, whatever follows
C18_PlayerDeathIsFinal ==
    [][player.currentState = "DEAD" =>
         player'.currentState = "DEAD" /\ player'.health = 0]_vars

\* C19: once an enemy's currentState is DEAD it stays DEAD and its health no
\* longer changes, whatever follows: updates, takeDamage calls, the timers of
\* the stagger recovery and of the attack hitbox, the attack-finished event
C19_EnemyDeathIsFinal ==
    [][\A e \in EnemyIds :
         enemy[e].currentState = "DEAD" =>
             enemy'[e].currentState = "DEAD" /\ enemy'[e].health = enemy[e].health]_vars

\* the knight died of a heavy hit while it was attacking; since then it has
\* taken another takeDamage call and an update() has run, and the timer of
\* its attack has fired without creating a hitbox
C19_Witness ==
    /\ Knight.currentState = "DEAD"
    /\ Knight.health = EnemyNearDeath.health - 3 * AttackPower
    /\ hist.hits >= 2
    /\ hist.dist > 0
    /\ Knight.isAttacking
    /\ Knight.entered = <<>>
    /\ timers = <<>>
    /\ hitboxes = <<>>

-----------------------------------------------------------------------------
(* The player's attack guard and cooldown *)

\* the cooldown the attack of that kind sets
CooldownOf(kind) == IF kind = "light" THEN LightCooldownTicks ELSE HeavyCooldownTicks

\* C20: attack() and heavyAttack() start an attack and schedule a hitbox only
\* when the player is not attacking, not STAGGERED, not DEAD and the cooldown
\* has run out, and change nothing otherwise; two successive attack starts
\* are separated by at least 0.8 s (after a light attack) or 1.2 s (after a
\* heavy one) of accumulated update() delta
C20_AttackGuardAndCooldown ==
    [][/\ PlayerAttackStarts =>
            /\ ~AttackBlocked(player)
            /\ hist.sinceStart < 0 \/ hist.sinceStart >= CooldownOf(hist.lastKind)
       /\ Len(timers') > Len(timers) => PlayerAttackStarts
       /\ (AttackBlocked(player) /\ ~IsFrame /\ ~IsDamageCall) =>
            /\ player' = player
            /\ Len(timers') <= Len(timers)]_vars

\* a light attack has just started as the second attack, after a heavy one
C20_Witness ==
    /\ HitboxesDue = 2
    /\ hist.sinceStart = 0
    /\ hist.lastKind = "light"
    /\ player.currentAttack = "light"
    /\ player.attackCooldown = LightCooldownTicks

-----------------------------------------------------------------------------
(* Completion of the player's attacks *)

\* C21: every attack the player has started completes unless the player is
\* killed: whenever isAttacking is set, later onAttackComplete has run
\* (isAttacking is false and the state is not ATTACKING), or the player is DEAD
C21_AttackEventuallyCompletes ==
    [](player.isAttacking =>
         <>(\/ ~player.isAttacking /\ player.currentState # "ATTACKING"
            \/ player.currentState = "DEAD"))

-----------------------------------------------------------------------------
(* A hitbox and its owner *)

\* C22: a hitbox never hurts its owner: handleHit, which applies the damage
\* and the knockback, is never called with a hitbox and the entity that owns
\* it, also when the owner's model intersects the collider
C22_HitboxSparesOwner ==
    \A i \in 1..Len(hitboxes) : ~hitboxes[i].hitOwner

\* a player's hitbox has intersected the player's model in a frame, and the
\* player is as it was constructed
C22_Witness ==
    /\ hist.ownerMet
    /\ Len(hitboxes) = 1
    /\ hitboxes[1].owner = "player"
    /\ hitboxes[1].posed
    /\ hitboxes[1].dealt = 0
    /\ player = PlayerInit

-----------------------------------------------------------------------------
(* The player's hitboxes *)

\* C23: a hitbox owned by the player is added to the combat manager only
\* while the player is in the ATTACKING state, never for a staggered or a
\* dead player
C23_PlayerHitboxOnlyWhileAttacking ==
    [][(/\ Len(hitboxes') > Len(hitboxes)
        /\ hitboxes'[Len(hitboxes')].owner = "player")
       => player.currentState = "ATTACKING"]_vars

-----------------------------------------------------------------------------
(* The length of the enemy's stagger *)

\* C24: a staggered enemy that is not killed stays STAGGERED for at least
\* 1000 ms counted from the last hit that staggered it: it leaves the state
\* only when that time has passed, and then for CHASE
C24_StaggerLastsItsTime ==
    [][(/\ Knight.currentState = "STAGGERED"
        /\ Knight'.currentState \notin {"STAGGERED", "DEAD"})
       => /\ hist.sinceStagger >= StaggerRecoverTicks
          /\ Knight'.currentState = "CHASE"]_vars

====
